---------------------------- MODULE Spec2Model ----------------------------
(***************************************************************************)
(* Model of meteor-up's server-info module (src/src/server-info.js): the   *)
(* multi-probe remote execution protocol (script generation, the remote    *)
(* shell's execution of the script, output demultiplexing, probe parsers), *)
(* the per-host prober getServerInfo and the fleet orchestrator serverInfo *)
(* (bluebird map with concurrency 2); and of PluginAPI.runCommand, whose   *)
(* source is not part of src/ and is modelled from the specification.      *)
(*                                                                         *)
(* Texts are sequences of symbols.  A symbol is one character, except that *)
(* a probe name is a single symbol.  The three sentinel literals and the   *)
(* 'Error response' marker are two-symbol texts, so that a fragment of a   *)
(* sentinel is a text of its own.                                          *)
(***************************************************************************)
EXTENDS Integers, Sequences, FiniteSets, TLC

\* ------------------------------------------------------------------ bounds
MaxExit == 12          \* largest exit status the remote commands return
MaxChunks == 2         \* chunks in a stubbed transport output
MaxServers == 3        \* servers in one serverInfo call
MaxInvocations == 2    \* concurrent runCommand invocations

\* ------------------------------------------------------------------- texts
NL == "\n"
SP == " "
Whitespace == {NL, SP}
Digits == <<"0", "1", "2", "3", "4", "5", "6", "7", "8", "9">>
DigitSet == {Digits[i] : i \in 1..10}

\* The value of a digit character.
DigitVal(c) == (CHOOSE i \in 1..10 : Digits[i] = c) - 1

\* Number.prototype.toString of a non-negative integer (what `echo $?` prints).
RECURSIVE Decimal(_)
Decimal(n) == IF n < 10 THEN <<Digits[n + 1]>>
              ELSE Decimal(n \div 10) \o <<Digits[(n % 10) + 1]>>

\* Whether sep occurs in s at position i.
MatchAt(s, i, sep) ==
  /\ i >= 1
  /\ i + Len(sep) - 1 <= Len(s)
  /\ \A k \in 1..Len(sep) : s[i + k - 1] = sep[k]

\* String.prototype.indexOf, 1-based; 0 when sep does not occur.
IndexOf(s, sep) ==
  LET hits == {i \in 1..Len(s) : MatchAt(s, i, sep)}
  IN  IF hits = {} THEN 0 ELSE CHOOSE i \in hits : \A j \in hits : i <= j

\* String.prototype.split with a non-empty separator.
RECURSIVE Split(_, _)
Split(s, sep) ==
  LET i == IndexOf(s, sep)
  IN  IF i = 0 THEN <<s>>
      ELSE <<SubSeq(s, 1, i - 1)>> \o Split(SubSeq(s, i + Len(sep), Len(s)), sep)

\* Array.prototype.join.
RECURSIVE Join(_, _)
Join(parts, sep) ==
  IF Len(parts) = 0 THEN <<>>
  ELSE IF Len(parts) = 1 THEN parts[1]
  ELSE parts[1] \o sep \o Join(Tail(parts), sep)

\* String.prototype.trim.
Trim(s) ==
  LET keep == {i \in 1..Len(s) : s[i] \notin Whitespace}
  IN  IF keep = {} THEN <<>>
      ELSE SubSeq(s, CHOOSE i \in keep : \A j \in keep : i <= j,
                     CHOOSE i \in keep : \A j \in keep : i >= j)

\* JavaScript numbers as the code uses them: an integer or NaN.
NaN == [nan |-> TRUE, n |-> 0]
Num(k) == [nan |-> FALSE, n |-> k]

RECURSIVE DigitsValue(_)
DigitsValue(s) == IF Len(s) = 0 THEN 0
                  ELSE 10 * DigitsValue(SubSeq(s, 1, Len(s) - 1)) + DigitVal(s[Len(s)])

\* parseInt(s, 10) of a text without a sign character: leading whitespace is
\* skipped and the longest run of digits is read; NaN when there is none.
ParseInt(s) ==
  LET t == Trim(s)
      stop == {i \in 1..Len(t) : t[i] \notin DigitSet}
      last == IF stop = {} THEN Len(t)
              ELSE (CHOOSE i \in stop : \A j \in stop : i <= j) - 1
  IN  IF last = 0 THEN NaN ELSE Num(DigitsValue(SubSeq(t, 1, last)))

\* -------------------------------------------------------- JavaScript values
\* null, undefined, a string, and a value parsed from JSON (kept as its
\* canonical text: the JSON text without insignificant whitespace).
Null == [kind |-> "null", v |-> <<>>]
Undefined == [kind |-> "undefined", v |-> <<>>]
Str(s) == [kind |-> "string", v |-> s]
Json(canon) == [kind |-> "json", v |-> canon]

\* What a call does: returns val, or throws.
Return(val) == [threw |-> FALSE, val |-> val]
Throw == [threw |-> TRUE, val |-> Undefined]

\* --------------------------------------------------------------- JSON.parse
\* JSON.parse on the texts of the model's alphabet: numbers without sign,
\* fraction or exponent, arrays, and the empty object (the alphabet has no
\* quote and no colon, and no letters that spell true, false or null).
JFail == [ok |-> FALSE, next |-> 0, canon |-> <<>>]
JOk(next, canon) == [ok |-> TRUE, next |-> next, canon |-> canon]

SkipWs(s, i) ==
  LET stop == {j \in i..Len(s) : s[j] \notin Whitespace}
  IN  IF stop = {} THEN Len(s) + 1 ELSE CHOOSE j \in stop : \A k \in stop : j <= k

DigitRunEnd(s, i) ==
  LET stop == {j \in i..Len(s) : s[j] \notin DigitSet}
  IN  IF stop = {} THEN Len(s) + 1 ELSE CHOOSE j \in stop : \A k \in stop : j <= k

RECURSIVE JSONValue(_, _), JSONElements(_, _, _)
\* A JSON value starting at position i (i is not whitespace).
JSONValue(s, i) ==
  IF i > Len(s) THEN JFail
  ELSE IF s[i] = "0" THEN JOk(i + 1, <<"0">>)
  ELSE IF s[i] \in DigitSet
    THEN JOk(DigitRunEnd(s, i), SubSeq(s, i, DigitRunEnd(s, i) - 1))
  ELSE IF s[i] = "{"
    THEN LET j == SkipWs(s, i + 1)
         IN  IF j <= Len(s) /\ s[j] = "}" THEN JOk(j + 1, <<"{", "}">>) ELSE JFail
  ELSE IF s[i] = "["
    THEN LET j == SkipWs(s, i + 1)
         IN  IF j <= Len(s) /\ s[j] = "]" THEN JOk(j + 1, <<"[", "]">>)
             ELSE JSONElements(s, j, <<"[">>)
  ELSE JFail

\* The elements of an array from position i on, after the canonical text acc.
JSONElements(s, i, acc) ==
  LET e == JSONValue(s, i)
      j == SkipWs(s, e.next)
  IN  IF ~e.ok \/ j > Len(s) THEN JFail
      ELSE IF s[j] = "]" THEN JOk(j + 1, acc \o e.canon \o <<"]">>)
      ELSE IF s[j] = "," THEN JSONElements(s, SkipWs(s, j + 1), acc \o e.canon \o <<",">>)
      ELSE JFail

JSONParse(s) ==
  LET e == JSONValue(s, SkipWs(s, 1))
  IN  IF e.ok /\ SkipWs(s, e.next) > Len(s) THEN Return(Json(e.canon)) ELSE Throw


\* ------------------------------------------------------------ probe registry
IsZero(code) == ~code.nan /\ code.n = 0

\* The marker swarmToken's parser looks for ('Error response').
ErrorResponse == <<"R", "r">>

\* A parser whose try/catch is missing.
CatchNullMissing(body) == body

\* try { body } catch (e) { return null; }
CatchNull(body) == IF body.threw THEN Return(Null) ELSE body

\* A try block that wraps the output without turning its lines into elements.
parseJSONArrayTryNoJoin(stdout) ==
  LET result == JSONParse(<<"[">> \o stdout \o <<"]">>)
  IN  IF result.threw THEN Throw ELSE Return(result.val)

\* The try block of parseJSONArray.
parseJSONArrayTry(stdout) ==
  LET output == <<"[">> \o Join(Split(stdout, <<NL>>), <<",">>) \o <<"]">>
      result == JSONParse(output)
  IN  IF result.threw THEN Throw
      ELSE IF result.val.v[1] # "[" THEN Return(Json(<<"[">> \o result.val.v \o <<"]">>))
      ELSE Return(result.val)

parseJSONArray(stdout, code) ==
  IF IsZero(code) THEN CatchNull(parseJSONArrayTry(stdout)) ELSE Return(Null)

swarmParser(stdout, code) ==
  IF IsZero(code) THEN CatchNull(JSONParse(stdout)) ELSE Return(Null)

swarmTokenParser(stdout, code) ==
  IF IsZero(code) /\ IndexOf(stdout, ErrorResponse) = 0
    THEN Return(Str(Trim(stdout)))
    ELSE Return(Null)

\* Object.keys(_collectors): the registered probes in registration order.
ProbeNames == <<"swarm", "swarmNodes", "swarmToken", "swarmServices", "images">>
Registered == {ProbeNames[i] : i \in 1..Len(ProbeNames)}

\* _collectors[name].command
Command(name) ==
  CASE name = "swarm" -> "docker info --format '{{json .Swarm}}'"
    [] name = "swarmNodes" -> "docker node inspect $(docker node ls -q) --format '{{json .}}'"
    [] name = "swarmToken" -> "docker swarm join-token worker -q"
    [] name = "swarmServices" -> "docker service ls --format '{{json .}}'"
    [] name = "images" -> "docker images --format '{{json .}}'"

\* _collectors[name].parser(stdout, code)
Parser(name, stdout, code) ==
  CASE name = "swarm" -> swarmParser(stdout, code)
    [] name = "swarmToken" -> swarmTokenParser(stdout, code)
    [] name \in {"swarmNodes", "swarmServices", "images"} -> parseJSONArray(stdout, code)

\* ------------------------------------------------------------------- codec
prefix == <<"<", "s">>
suffix == <<"p", ">">>
codeSeperator == <<"c", "=">>
Sentinels == {prefix, suffix, codeSeperator}

\* Shell statements.
Echo(text) == [op |-> "echo", arg |-> text]
Run(command) == [op |-> "run", arg |-> <<command>>]
EchoStatus == [op |-> "echo $?", arg |-> <<>>]

\* The four statements of one probe's section of the script.
generateVarCommand(name, command) ==
  << Echo(prefix \o <<name>> \o suffix),
     Run(command),
     Echo(codeSeperator),
     EchoStatus >>

RECURSIVE ScriptFrom(_)
ScriptFrom(i) ==
  IF i > Len(ProbeNames) THEN <<>>
  ELSE generateVarCommand(ProbeNames[i], Command(ProbeNames[i])) \o ScriptFrom(i + 1)

generateScript == ScriptFrom(1)

\* A map callback that does not trim the command output.
CollectorFrameUntrimmed(collectorOutput) ==
  LET bySuffix == Split(collectorOutput, suffix)
      byCode == Split(collectorOutput, codeSeperator)
  IN  IF Len(bySuffix) < 2 \/ Len(byCode) < 2 THEN Throw
      ELSE Return([ name |-> Trim(bySuffix[1]),
                    output |-> Split(bySuffix[2], codeSeperator)[1],
                    code |-> ParseInt(Trim(byCode[2])) ])

\* One chunk of the combined output, as seperateCollectors' map callback reads it.
CollectorFrame(collectorOutput) ==
  LET bySuffix == Split(collectorOutput, suffix)
      byCode == Split(collectorOutput, codeSeperator)
  IN  IF Len(bySuffix) < 2 \/ Len(byCode) < 2 THEN Throw
      ELSE Return([ name |-> Trim(bySuffix[1]),
                    output |-> Trim(Split(bySuffix[2], codeSeperator)[1]),
                    code |-> ParseInt(Trim(byCode[2])) ])

\* A decoder that keeps the chunk before the first start sentinel.
seperateCollectorsNoShift(output) ==
  LET collectors == Split(output, prefix)
      frames == [i \in 1..Len(collectors) |-> CollectorFrame(collectors[i])]
  IN  IF \E i \in 1..Len(collectors) : frames[i].threw
        THEN [threw |-> TRUE, frames |-> <<>>]
        ELSE [threw |-> FALSE, frames |-> [i \in 1..Len(collectors) |-> frames[i].val]]

\* seperateCollectors(output): the frames, or a TypeError.
seperateCollectors(output) ==
  LET collectors == Tail(Split(output, prefix))
      frames == [i \in 1..Len(collectors) |-> CollectorFrame(collectors[i])]
  IN  IF \E i \in 1..Len(collectors) : frames[i].threw
        THEN [threw |-> TRUE, frames |-> <<>>]
        ELSE [threw |-> FALSE, frames |-> [i \in 1..Len(collectors) |-> frames[i].val]]

\* The property key a decoded name is: the registered probe it spells, if any.
IsRegisteredName(name) == Len(name) = 1 /\ name[1] \in Registered

\* parseCollectorOutput(name, output, code); _collectors[name] is undefined
\* for an unregistered name, and reading .parser of it throws.
parseCollectorOutput(name, output, code) ==
  IF IsRegisteredName(name) THEN Parser(name[1], output, code) ELSE Throw

\* An object with property key set to val.
Put(obj, key, val) ==
  [k \in (DOMAIN obj) \cup {key} |-> IF k = key THEN val ELSE obj[k]]

Obj(fields) == [kind |-> "object", v |-> fields]

RECURSIVE HostResultFrom(_, _, _)
HostResultFrom(collectorData, i, result) ==
  IF i > Len(collectorData) THEN Return(Obj(result))
  ELSE LET data == collectorData[i]
           parsed == parseCollectorOutput(data.name, data.output, data.code)
       IN  IF parsed.threw THEN Throw
           ELSE HostResultFrom(collectorData, i + 1, Put(result, data.name[1], parsed.val))

createHostResult(collectorData, host) ==
  HostResultFrom(collectorData, 1, [k \in {"_host"} |-> Str(<<host>>)])

\* The .then callback of getServerInfo.
GetServerInfoThen(output, host) ==
  LET collectorData == seperateCollectors(output)
  IN  IF collectorData.threw THEN Throw
      ELSE createHostResult(collectorData.frames, host)

\* A .catch callback that logs and throws the error again.
GetServerInfoCatchRethrow == Throw

\* The .catch callback of getServerInfo: logs and returns undefined.
GetServerInfoCatch == Return(Undefined)

\* What getServerInfo's promise settles with once the transport resolved.
GetServerInfoResolved(output, host) ==
  LET r == GetServerInfoThen(output, host)
  IN  IF r.threw THEN GetServerInfoCatch ELSE r

\* ------------------------------------------------------------ remote shell
\* The shell's state: the combined stdout so far and $?.
\* remote maps each command to what it prints (2>&1) and its exit status.
ShellExec(stmt, sh, remote) ==
  CASE stmt.op = "echo" -> [out |-> sh.out \o stmt.arg \o <<NL>>, status |-> 0]
    [] stmt.op = "run" -> [out |-> sh.out \o remote[stmt.arg[1]].out,
                          status |-> remote[stmt.arg[1]].status]
    [] stmt.op = "echo $?" -> [out |-> sh.out \o Decimal(sh.status) \o <<NL>>, status |-> 0]


\* The script run to its end by a shell that starts with stdout sh.out.
RECURSIVE RunScript(_, _, _, _)
RunScript(script, i, sh, remote) ==
  IF i > Len(script) THEN sh
  ELSE RunScript(script, i + 1, ShellExec(script[i], sh, remote), remote)

\* ---------------------------------------------------------------- variables
VARIABLES
  \* one host probed by getServerInfo
  transport,   \* "remote": a host runs the script; "stub": a canned output
  remote,      \* what each probe command prints and returns on the host
  banner,      \* text the transport captures before the script's output
  shpc,        \* the next statement of the script the remote shell runs
  sh,          \* the remote shell: [out, status]
  chunks,      \* the chunks a stubbed transport output was built from
  output,      \* result.output, once runSSHCommand resolved
  sshOutcome,  \* "pending", "resolved" or "rejected"
  hpc,         \* getServerInfo's promise chain: "ssh", "then", "catch", then
               \* "settled" (fulfilled with hres) or "rejected"
  hres,        \* the value getServerInfo's promise resolved with
  \* one call of a probe parser
  pin,         \* [name, stdout, code]
  ppc,         \* "call" or "returned"
  pout,        \* what the call did
  \* one serverInfo call
  servers,     \* the input: a sequence of hosts
  replies,     \* what the hosts' transport calls can resolve with, as
               \* [host, val]: val is what getServerInfo is then fulfilled with
  st,          \* per server: "queued", "inflight" or "settled"
  tr,          \* per server: the transport call's outcome
  calls,       \* per server: the scripts runSSHCommand was invoked with, in order
  results,     \* per server: what getServerInfo resolved with
  fleet,       \* serverInfo's promise: [state, value]
  \* runCommand invocations
  inv,         \* per invocation: [name, pc, idx]
  ran          \* per invocation: the hooks and handler steps executed, in order

hostVars == <<transport, remote, banner, shpc, sh, chunks, output, sshOutcome, hpc, hres>>
parserVars == <<pin, ppc, pout>>
fleetVars == <<servers, replies, st, tr, calls, results, fleet>>
cmdVars == <<inv, ran>>
vars == <<hostVars, parserVars, fleetVars, cmdVars>>

\* Each specification runs one part of the program and leaves the rest alone.
HostOnly == UNCHANGED <<parserVars, fleetVars, cmdVars>>
ParserOnly == UNCHANGED <<hostVars, fleetVars, cmdVars>>
FleetOnly == UNCHANGED <<hostVars, parserVars, cmdVars>>
CmdOnly == UNCHANGED <<hostVars, parserVars, fleetVars>>

\* ------------------------------------------------------ getServerInfo (host)
Host == "h1"
Commands == {Command(ProbeNames[i]) : i \in 1..Len(ProbeNames)}

\* What a probe command may do on the host: print JSON and succeed, print an
\* error and fail, print nothing and fail, or print a start sentinel.
Behaviours ==
  { [out |-> <<"{", "}", NL>>, status |-> 0],
    [out |-> <<"a", NL>>, status |-> 1],
    [out |-> <<>>, status |-> MaxExit],
    [out |-> prefix \o <<NL>>, status |-> 0] }

Banners == {<<>>, <<"a", NL>>}

\* Stubbed transport outputs: up to MaxChunks chunks, each a frame in the
\* wire format or a frame with a part missing.  A frame's raw output may be
\* JSON, begin with whitespace, hold a sentinel literal, or hold a fragment
\* of one.
Shapes == {"ok", "noSuffix", "noCode", "noInt"}
StubNames == {"swarm", "swarmToken", "nope"}
StubOuts == {<<"{", "}">>, <<SP, "a">>, codeSeperator, <<"<", NL, "1">>}
StubCodes == {0, MaxExit}
Chunks ==
  [shape : {"ok"}, name : StubNames, out : StubOuts, code : StubCodes]
    \cup [shape : Shapes \ {"ok"}, name : StubNames, out : {<<"{", "}">>}, code : {0}]
ChunkSeqs == UNION {[1..n -> Chunks] : n \in 0..MaxChunks}

\* One frame in the wire format: the start sentinel with the name, the raw
\* output, the stop-code marker and the decimal exit status on its own line.
encodeFrame(name, out, code) ==
  prefix \o <<name>> \o suffix \o <<NL>> \o out \o <<NL>>
    \o codeSeperator \o <<NL>> \o Decimal(code) \o <<NL>>

ChunkText(c) ==
  CASE c.shape = "ok" -> encodeFrame(c.name, c.out, c.code)
    [] c.shape = "noSuffix" ->
         prefix \o <<c.name, NL>> \o c.out \o <<NL>> \o codeSeperator
           \o <<NL>> \o Decimal(c.code) \o <<NL>>
    [] c.shape = "noCode" -> prefix \o <<c.name>> \o suffix \o <<NL>> \o c.out \o <<NL>>
    [] c.shape = "noInt" ->
         prefix \o <<c.name>> \o suffix \o <<NL>> \o c.out \o <<NL>>
           \o codeSeperator \o <<NL>>

RECURSIVE StubText(_)
StubText(cs) == IF Len(cs) = 0 THEN <<>> ELSE ChunkText(Head(cs)) \o StubText(Tail(cs))

HostIdle ==
  /\ transport = "none"
  /\ remote = <<>>
  /\ banner = <<>>
  /\ shpc = 0
  /\ sh = [out |-> <<>>, status |-> 0]
  /\ chunks = <<>>
  /\ output = <<>>
  /\ sshOutcome = "pending"
  /\ hpc = "idle"
  /\ hres = Undefined

\* getServerInfo was called: the script is generated and runSSHCommand invoked.
HostInit ==
  /\ \/ /\ transport = "remote"
        /\ remote \in [Commands -> Behaviours]
        /\ chunks = <<>>
     \/ /\ transport = "stub"
        /\ remote = <<>>
        /\ chunks \in ChunkSeqs
  /\ banner \in Banners
  /\ shpc = 1
  /\ sh = [out |-> banner, status |-> 0]
  /\ output = <<>>
  /\ sshOutcome = "pending"
  /\ hpc = "ssh"
  /\ hres = Undefined

\* The remote shell executes the next statement of the script.
ShellStep ==
  /\ transport = "remote"
  /\ hpc = "ssh"
  /\ shpc <= Len(generateScript)
  /\ sh' = ShellExec(generateScript[shpc], sh, remote)
  /\ shpc' = shpc + 1
  /\ UNCHANGED <<transport, remote, banner, chunks, output, sshOutcome, hpc, hres>>
  /\ HostOnly

\* runSSHCommand resolves with the combined output of the finished script.
SSHResolve ==
  /\ transport = "remote"
  /\ hpc = "ssh"
  /\ shpc > Len(generateScript)
  /\ output' = sh.out
  /\ sshOutcome' = "resolved"
  /\ hpc' = "then"
  /\ UNCHANGED <<transport, remote, banner, shpc, sh, chunks, hres>>
  /\ HostOnly

\* A stubbed runSSHCommand resolves with its canned output.
SSHResolveStub ==
  /\ transport = "stub"
  /\ hpc = "ssh"
  /\ output' = banner \o StubText(chunks)
  /\ sshOutcome' = "resolved"
  /\ hpc' = "then"
  /\ UNCHANGED <<transport, remote, banner, shpc, sh, chunks, hres>>
  /\ HostOnly

\* runSSHCommand rejects.
SSHReject ==
  /\ hpc = "ssh"
  /\ sshOutcome' = "rejected"
  /\ hpc' = "catch"
  /\ UNCHANGED <<transport, remote, banner, shpc, sh, chunks, output, hres>>
  /\ HostOnly

\* The .then callback runs: it returns the host result, or throws.
Then ==
  /\ hpc = "then"
  /\ LET r == GetServerInfoThen(output, Host)
     IN  IF r.threw
           THEN hpc' = "catch" /\ hres' = hres
           ELSE hpc' = "settled" /\ hres' = r.val
  /\ UNCHANGED <<transport, remote, banner, shpc, sh, chunks, output, sshOutcome>>
  /\ HostOnly

\* The .catch callback runs.
Catch ==
  /\ hpc = "catch"
  /\ LET r == GetServerInfoCatch
     IN  IF r.threw
           THEN hpc' = "rejected" /\ hres' = hres
           ELSE hpc' = "settled" /\ hres' = r.val
  /\ UNCHANGED <<transport, remote, banner, shpc, sh, chunks, output, sshOutcome>>
  /\ HostOnly

HostNext ==
  \/ ShellStep
  \/ SSHResolve
  \/ SSHResolveStub
  \/ SSHReject
  \/ Then
  \/ Catch

\* ------------------------------------------------------------ a parser call
\* Raw outputs and exit codes a parser is called with; the code is what
\* parseInt made of the text after the code marker, NaN included.
ParserOuts ==
  { <<>>, <<"{", "}">>, <<"1", NL, "2">>, <<"1", NL, NL, "2">>, <<"a">>,
    <<"[", "1">>, <<"1", ",", "2">>, <<"0", "1">>, <<SP, "a", SP>>,
    ErrorResponse \o <<"a">>, <<"[", "1", ",", SP, "2", "]">>, <<"]">>,
    <<"[", "1", NL, "2", "]">>, <<"{", "}", NL, "1", "2">>, <<"1", NL>> }
ParserCodes == {Num(0), Num(1), Num(MaxExit), NaN}

ParserIdle ==
  /\ pin = [name |-> "swarm", stdout |-> <<>>, code |-> Num(0)]
  /\ ppc = "idle"
  /\ pout = Return(Null)

ParserInit ==
  /\ pin \in [name : Registered, stdout : ParserOuts, code : ParserCodes]
  /\ ppc = "call"
  /\ pout = Return(Null)

\* parseCollectorOutput runs the probe's parser.
CallParser ==
  /\ ppc = "call"
  /\ pout' = parseCollectorOutput(<<pin.name>>, pin.stdout, pin.code)
  /\ ppc' = "returned"
  /\ UNCHANGED pin
  /\ ParserOnly

ParserNext == CallParser

\* ------------------------------------------------------- serverInfo (fleet)
Hosts == {"h1", "h2"}

\* { concurrency: 2 }
concurrency == 2

ServerLists == UNION {[1..n -> Hosts] : n \in 0..MaxServers}

\* Remote hosts for the fleet: every probe succeeds; or the join token fails.
GoodRemote == [c \in Commands |-> [out |-> <<"{", "}", NL>>, status |-> 0]]
OtherRemote ==
  [c \in Commands |->
     IF c = Command("swarmToken") THEN [out |-> <<"a", NL>>, status |-> 1]
     ELSE [out |-> <<"{", "}", NL>>, status |-> 0]]

\* The outputs a host's transport call may resolve with: the script's output
\* on either remote, or an output cut off inside the first frame.
FleetOutputs ==
  { RunScript(generateScript, 1, [out |-> <<>>, status |-> 0], GoodRemote).out,
    RunScript(generateScript, 1, [out |-> <<>>, status |-> 0], OtherRemote).out,
    prefix \o <<"swarm">> }

Indexes == DOMAIN servers
InFlight == {i \in Indexes : st[i] = "inflight"}

\* A limit test that is off by one.
CanStartOffByOne == Cardinality(InFlight) <= concurrency

\* bluebird's map starts a mapper only while fewer than `concurrency` are in flight.
CanStart == Cardinality(InFlight) < concurrency

\* A fold that keeps the entry a host already has.
RECURSIVE FleetFromKeepFirst(_, _, _)
FleetFromKeepFirst(serverResults, i, result) ==
  IF i > Len(serverResults) THEN Return(result)
  ELSE IF serverResults[i].kind # "object" THEN Throw
  ELSE LET host == serverResults[i].v["_host"].v[1]
       IN  FleetFromKeepFirst(serverResults, i + 1,
             IF host \in DOMAIN result THEN result ELSE Put(result, host, serverResults[i]))

\* The callback of serverInfo's .then: the host-keyed result, or a TypeError
\* when a server result is undefined.
RECURSIVE FleetFrom(_, _, _)
FleetFrom(serverResults, i, result) ==
  IF i > Len(serverResults) THEN Return(result)
  ELSE IF serverResults[i].kind # "object" THEN Throw
  ELSE FleetFrom(serverResults, i + 1,
                 Put(result, serverResults[i].v["_host"].v[1], serverResults[i]))

\* A loop over the server results that starts one element too late.
ServerInfoThenSkipFirst(serverResults) == FleetFrom(serverResults, 2, <<>>)

ServerInfoThen(serverResults) == FleetFrom(serverResults, 1, <<>>)

\* What getServerInfo is fulfilled with, for each host and output of the fleet.
FleetResults ==
  {[host |-> host, val |-> GetServerInfoResolved(out, host).val] :
     out \in FleetOutputs, host \in Hosts}

FleetIdle ==
  /\ servers = <<>>
  /\ replies = {}
  /\ st = <<>>
  /\ tr = <<>>
  /\ calls = <<>>
  /\ results = <<>>
  /\ fleet = [state |-> "idle", value |-> <<>>]

\* serverInfo(vars, servers) was called.
FleetInit ==
  /\ servers \in ServerLists
  /\ replies = FleetResults
  /\ st = [i \in DOMAIN servers |-> "queued"]
  /\ tr = [i \in DOMAIN servers |-> "none"]
  /\ calls = [i \in DOMAIN servers |-> <<>>]
  /\ results = [i \in DOMAIN servers |-> Undefined]
  /\ fleet = [state |-> "pending", value |-> <<>>]

\* A prober that opens one connection per probe instead of one per host.
MapStartPerProbe(i) ==
  /\ fleet.state = "pending"
  /\ st[i] = "queued"
  /\ CanStart
  /\ st' = [st EXCEPT ![i] = "inflight"]
  /\ calls' = [calls EXCEPT ![i] =
       [k \in 1..Len(ProbeNames) |->
          generateVarCommand(ProbeNames[k], Command(ProbeNames[k]))]]
  /\ UNCHANGED <<servers, replies, tr, results, fleet>>
  /\ FleetOnly

\* map calls the mapper for server i: getServerInfo invokes runSSHCommand.
MapStart(i) ==
  /\ fleet.state = "pending"
  /\ st[i] = "queued"
  /\ CanStart
  /\ st' = [st EXCEPT ![i] = "inflight"]
  /\ calls' = [calls EXCEPT ![i] = Append(@, generateScript)]
  /\ UNCHANGED <<servers, replies, tr, results, fleet>>
  /\ FleetOnly

\* Server i's transport call resolves; getServerInfo's callbacks run.
TransportResolve(i) ==
  /\ st[i] = "inflight"
  /\ \E r \in replies :
       /\ r.host = servers[i]
       /\ results' = [results EXCEPT ![i] = r.val]
  /\ tr' = [tr EXCEPT ![i] = "resolved"]
  /\ st' = [st EXCEPT ![i] = "settled"]
  /\ UNCHANGED <<servers, replies, calls, fleet>>
  /\ FleetOnly

\* A getServerInfo without its .catch: the rejection reaches map, which
\* rejects at once and starts no further mapper.
TransportRejectAborts(i) ==
  /\ st[i] = "inflight"
  /\ results' = [results EXCEPT ![i] = Undefined]
  /\ tr' = [tr EXCEPT ![i] = "rejected"]
  /\ st' = [st EXCEPT ![i] = "settled"]
  /\ fleet' = IF fleet.state = "pending" THEN [state |-> "rejected", value |-> <<>>] ELSE fleet
  /\ UNCHANGED <<servers, replies, calls>>
  /\ FleetOnly

\* Server i's transport call rejects; getServerInfo's .catch runs.
TransportReject(i) ==
  /\ st[i] = "inflight"
  /\ results' = [results EXCEPT ![i] = GetServerInfoCatch.val]
  /\ tr' = [tr EXCEPT ![i] = "rejected"]
  /\ st' = [st EXCEPT ![i] = "settled"]
  /\ UNCHANGED <<servers, replies, calls, fleet>>
  /\ FleetOnly

\* A serverInfo that does not wait for the mappers (fire and forget).
MapThenEarly ==
  /\ fleet.state = "pending"
  /\ LET r == ServerInfoThen(SelectSeq(results, LAMBDA x : x.kind = "object"))
     IN  fleet' = IF r.threw THEN [state |-> "rejected", value |-> <<>>]
                  ELSE [state |-> "resolved", value |-> r.val]
  /\ UNCHANGED <<servers, replies, st, tr, calls, results>>
  /\ FleetOnly

\* Every mapper promise has resolved: map resolves and the .then callback runs.
MapThen ==
  /\ fleet.state = "pending"
  /\ \A i \in Indexes : st[i] = "settled"
  /\ LET r == ServerInfoThen(results)
     IN  fleet' = IF r.threw THEN [state |-> "rejected", value |-> <<>>]
                  ELSE [state |-> "resolved", value |-> r.val]
  /\ UNCHANGED <<servers, replies, st, tr, calls, results>>
  /\ FleetOnly

FleetNext ==
  \/ \E i \in Indexes : MapStart(i)
  \/ \E i \in Indexes : TransportResolve(i)
  \/ \E i \in Indexes : TransportReject(i)
  \/ MapThen

\* -------------------------------------------------------------- runCommand
\* The registries, as the unit test sets them up, with a second hook per
\* stage of test.logs and a second command.
commands == {"test.logs", "a.b"}
hooks ==
  [k \in {"pre.test.logs", "post.test.logs", "pre.a.b"} |->
     CASE k = "pre.test.logs" -> <<"pre1", "pre2">>
       [] k = "post.test.logs" -> <<"post1", "post2">>
       [] k = "pre.a.b" -> <<"preA">>]

\* 'pre.' + name and 'post.' + name.
HookKey(stage, name) ==
  CASE name = "test.logs" -> IF stage = "pre" THEN "pre.test.logs" ELSE "post.test.logs"
    [] name = "a.b" -> IF stage = "pre" THEN "pre.a.b" ELSE "post.a.b"
    [] OTHER -> "none"

\* hooks[stage + '.' + name], possibly empty.
HooksFor(stage, name) ==
  IF HookKey(stage, name) \in DOMAIN hooks THEN hooks[HookKey(stage, name)] ELSE <<>>

\* The names runCommand is invoked with; NoName is a missing name.
NoName == ""
CommandNames == {NoName, "nonexistent.command", "test.logs", "a.b"}
Invocations == 1..MaxInvocations

\* A check that forgets the registry lookup.
ValidCommandNoLookup(name) == name # NoName

\* Step 1 of runCommand: the name is present and registered.
ValidCommand(name) == name # NoName /\ name \in commands

CmdIdle ==
  /\ inv = <<>>
  /\ ran = <<>>

CmdInit ==
  /\ inv = [i \in Invocations |-> [name |-> NoName, pc |-> "idle", idx |-> 0]]
  /\ ran = [i \in Invocations |-> <<>>]

\* runCommand(name) is invoked: it rejects, or goes on to the pre-hooks.
RunCommand(i, name) ==
  /\ inv[i].pc = "idle"
  /\ inv' = [inv EXCEPT ![i] =
       IF ValidCommand(name) THEN [name |-> name, pc |-> "pre", idx |-> 1]
       ELSE [name |-> name, pc |-> "rejected", idx |-> 0]]
  /\ UNCHANGED ran
  /\ CmdOnly

\* The next pre-hook runs, in registration order.
PreHook(i) ==
  /\ inv[i].pc = "pre"
  /\ inv[i].idx <= Len(HooksFor("pre", inv[i].name))
  /\ ran' = [ran EXCEPT ![i] = Append(@, [stage |-> "pre", id |-> HooksFor("pre", inv[i].name)[inv[i].idx]])]
  /\ inv' = [inv EXCEPT ![i].idx = @ + 1]
  /\ CmdOnly

\* A handler invoked without awaiting the pre-hooks.
HandlerEarly(i) ==
  /\ inv[i].pc = "pre"
  /\ ran' = [ran EXCEPT ![i] = Append(@, [stage |-> "handler", id |-> inv[i].name])]
  /\ inv' = [inv EXCEPT ![i].pc = "handler", ![i].idx = 0]
  /\ CmdOnly

\* All pre-hooks are done: the handler is invoked and its result awaited.
Handler(i) ==
  /\ inv[i].pc = "pre"
  /\ inv[i].idx > Len(HooksFor("pre", inv[i].name))
  /\ ran' = [ran EXCEPT ![i] = Append(@, [stage |-> "handler", id |-> inv[i].name])]
  /\ inv' = [inv EXCEPT ![i].pc = "handler", ![i].idx = 0]
  /\ CmdOnly

\* The handler completes; its failure rejects the invocation, and the
\* post-hooks are skipped.
HandlerDone(i) ==
  /\ inv[i].pc = "handler"
  /\ \E ok \in BOOLEAN :
       /\ ran' = [ran EXCEPT ![i] =
            Append(@, [stage |-> IF ok THEN "handlerDone" ELSE "handlerFailed",
                       id |-> inv[i].name])]
       /\ inv' = [inv EXCEPT ![i].pc = IF ok THEN "post" ELSE "rejected",
                             ![i].idx = IF ok THEN 1 ELSE 0]
  /\ CmdOnly

\* The next post-hook runs, in registration order.
PostHook(i) ==
  /\ inv[i].pc = "post"
  /\ inv[i].idx <= Len(HooksFor("post", inv[i].name))
  /\ ran' = [ran EXCEPT ![i] = Append(@, [stage |-> "post", id |-> HooksFor("post", inv[i].name)[inv[i].idx]])]
  /\ inv' = [inv EXCEPT ![i].idx = @ + 1]
  /\ CmdOnly

\* All post-hooks are done: runCommand resolves.
Resolve(i) ==
  /\ inv[i].pc = "post"
  /\ inv[i].idx > Len(HooksFor("post", inv[i].name))
  /\ inv' = [inv EXCEPT ![i].pc = "resolved"]
  /\ UNCHANGED ran
  /\ CmdOnly

CmdNext ==
  \/ \E i \in Invocations, name \in CommandNames : RunCommand(i, name)
  \/ \E i \in Invocations : PreHook(i)
  \/ \E i \in Invocations : Handler(i)
  \/ \E i \in Invocations : HandlerDone(i)
  \/ \E i \in Invocations : PostHook(i)
  \/ \E i \in Invocations : Resolve(i)

\* ----------------------------------------------------------- specifications
\* One serverInfo call.
Init == FleetInit /\ HostIdle /\ ParserIdle /\ CmdIdle
Next == FleetNext
Spec == Init /\ [][Next]_vars

\* One serverInfo call in which map starts a waiting mapper whenever fewer
\* than `concurrency` are in flight, every started transport call settles,
\* and the promise callbacks run.
Settle(i) == TransportResolve(i) \/ TransportReject(i)
Fairness ==
  /\ WF_vars(\E i \in 1..MaxServers : i \in Indexes /\ MapStart(i))
  /\ WF_vars(\E i \in 1..MaxServers : i \in Indexes /\ Settle(i))
  /\ WF_vars(MapThen)
FairSpec == Init /\ [][Next]_vars /\ Fairness

\* One getServerInfo call.
SpecHostInit == HostInit /\ ParserIdle /\ FleetIdle /\ CmdIdle
SpecHost == SpecHostInit /\ [][HostNext]_vars

\* One parser call.
SpecParserInit == ParserInit /\ HostIdle /\ FleetIdle /\ CmdIdle
SpecParser == SpecParserInit /\ [][ParserNext]_vars

\* runCommand invocations.
SpecCmdInit == CmdInit /\ HostIdle /\ ParserIdle /\ FleetIdle
SpecCmd == SpecCmdInit /\ [][CmdNext]_vars

\* ------------------------------------------------------------------- claims
Succeeded == {i \in Indexes : tr[i] = "resolved"}
Rejected == {i \in Indexes : tr[i] = "rejected"}

\* C1: when some hosts' transport calls reject and the others succeed,
\* serverInfo resolves (it does not reject), and the result holds exactly the
\* hosts whose transport call succeeded.
C1_FailedHostsOmitted ==
  ( /\ fleet.state # "pending"
    /\ Rejected # {}
    /\ Succeeded # {}
    /\ \A i \in Succeeded : results[i].kind = "object" )
    => /\ fleet.state = "resolved"
       /\ DOMAIN fleet.value = {servers[i] : i \in Succeeded}

\* C3: at every moment of a serverInfo call at most 2 transport calls are in
\* flight.
C3_AtMostTwoInFlight == Cardinality(InFlight) <= 2

\* Two calls are in flight while a third server waits.
C3_Witness ==
  /\ Cardinality(InFlight) = 2
  /\ \E i \in Indexes : st[i] = "queued"

\* No sentinel literal occurs in the text.
SentinelFree(text) == \A lit \in Sentinels : IndexOf(text, lit) = 0

\* The host's commands print no sentinel literal.
WellBehaved == \A c \in Commands : SentinelFree(remote[c].out)

\* C2: for every registered probe, the exit code the script prints after the
\* stop-code marker, which the decoder returns as the frame's code, is the
\* exit status of the probe's own command.
C2_PrintedCodeIsCommandStatus ==
  (transport = "remote" /\ sshOutcome = "resolved" /\ WellBehaved)
    => LET decoded == seperateCollectors(output)
       IN  /\ ~decoded.threw
           /\ Len(decoded.frames) = Len(ProbeNames)
           /\ \A i \in 1..Len(ProbeNames) :
                decoded.frames[i].code = Num(remote[Command(ProbeNames[i])].status)

\* C4: every HostResult the Host Prober produces has the host key and exactly
\* one entry per registered probe, whatever the transport output.
C4_HostResultHasEveryProbe ==
  (hpc = "settled" /\ hres.kind = "object")
    => DOMAIN hres.v = {"_host"} \cup Registered

ChunkIndexes == DOMAIN chunks
MalformedChunks == {i \in ChunkIndexes : chunks[i].shape # "ok"}

\* C5: when one chunk of the output is malformed, decoding does not abort:
\* that probe's value is null, and each sibling probe has the value its
\* parser gives for its own frame.
C5_MalformedChunkIsolated ==
  ( /\ transport = "stub"
    /\ sshOutcome = "resolved"
    /\ hpc = "settled"
    /\ Cardinality(MalformedChunks) = 1
    /\ \A i \in ChunkIndexes : chunks[i].name \in Registered /\ SentinelFree(chunks[i].out)
    /\ \A i, j \in ChunkIndexes : chunks[i].name = chunks[j].name => i = j )
    => /\ hres.kind = "object"
       /\ \A i \in ChunkIndexes :
            /\ chunks[i].name \in DOMAIN hres.v
            /\ hres.v[chunks[i].name] =
                 IF i \in MalformedChunks THEN Null
                 ELSE Parser(chunks[i].name, Trim(chunks[i].out), Num(chunks[i].code)).val

\* The frames a stubbed output was built from, as the decoder should return them.
ChunkFrames ==
  [i \in ChunkIndexes |->
     [name |-> <<chunks[i].name>>, output |-> chunks[i].out, code |-> Num(chunks[i].code)]]

\* The stubbed output is the wire format of frames without sentinel literals
\* in their raw output, and nothing else.
FramedOutput ==
  /\ transport = "stub"
  /\ sshOutcome = "resolved"
  /\ banner = <<>>
  /\ \A i \in ChunkIndexes : chunks[i].shape = "ok" /\ SentinelFree(chunks[i].out)

\* C6 as stated: decoding the wire format of any frames whose raw output has
\* no sentinel literal returns the same frames.
C6_RoundTrip ==
  FramedOutput => seperateCollectors(output) = [threw |-> FALSE, frames |-> ChunkFrames]

\* C6, amended: decoding the wire format of frames whose raw output has no
\* sentinel literal and neither begins nor ends with whitespace returns the
\* same frames, with the same name, output and exit code.
C6_RoundTripTrimmed ==
  (FramedOutput /\ \A i \in ChunkIndexes : Trim(chunks[i].out) = chunks[i].out)
    => seperateCollectors(output) = [threw |-> FALSE, frames |-> ChunkFrames]

\* Two frames with trimmed output, one with a two-digit exit code, were decoded.
C6_Witness ==
  /\ FramedOutput
  /\ hpc = "settled"
  /\ Len(chunks) = 2
  /\ \A i \in ChunkIndexes : Trim(chunks[i].out) = chunks[i].out
  /\ \E i \in ChunkIndexes : chunks[i].code >= 10

\* The four statements of probe i's section, at their place in the script.
SectionAt(i) == SubSeq(generateScript, 4 * (i - 1) + 1, 4 * i)

\* C7: the script holds one framed section per registered probe, in
\* registration order; an output with exactly one well-formed frame per
\* probe decodes to as many frames, named as the probes in registration order,
\* and a preamble before the first start sentinel is discarded.
C7_FramesInRegistrationOrder ==
  /\ Len(generateScript) = 4 * Len(ProbeNames)
  /\ \A i \in 1..Len(ProbeNames) :
       /\ SectionAt(i)[1] = Echo(prefix \o <<ProbeNames[i]>> \o suffix)
       /\ SectionAt(i)[2] = Run(Command(ProbeNames[i]))
       /\ SectionAt(i)[3] = Echo(codeSeperator)
       /\ SectionAt(i)[4] = EchoStatus
  /\ (transport = "remote" /\ sshOutcome = "resolved" /\ WellBehaved)
       => LET decoded == seperateCollectors(output)
          IN  /\ ~decoded.threw
              /\ Len(decoded.frames) = Len(ProbeNames)
              /\ \A i \in 1..Len(ProbeNames) : decoded.frames[i].name = <<ProbeNames[i]>>

\* A host printed a preamble and then ran the whole script; the output was decoded.
C7_Witness ==
  /\ transport = "remote"
  /\ sshOutcome = "resolved"
  /\ WellBehaved
  /\ banner # <<>>
  /\ hpc = "settled"
  /\ hres.kind = "object"

\* What one invocation must have executed when it resolves.
HookEvents(stage, name) ==
  [k \in 1..Len(HooksFor(stage, name)) |-> [stage |-> stage, id |-> HooksFor(stage, name)[k]]]
Expected(name) ==
  HookEvents("pre", name)
    \o <<[stage |-> "handler", id |-> name], [stage |-> "handlerDone", id |-> name]>>
    \o HookEvents("post", name)
IsPrefix(a, b) == Len(a) <= Len(b) /\ SubSeq(b, 1, Len(a)) = a

\* C8: runCommand with no name or with an unregistered name rejects, and no
\* pre-hook, handler or post-hook runs in that invocation.
C8_UnknownCommandRejected ==
  \A i \in Invocations :
    (inv[i].pc # "idle" /\ (inv[i].name = NoName \/ inv[i].name \notin commands))
      => inv[i].pc = "rejected" /\ ran[i] = <<>>

\* One invocation was rejected for a missing name and another for an unknown
\* name, while hooks and commands are registered.
C8_Witness ==
  /\ \E i \in Invocations : inv[i].pc = "rejected" /\ inv[i].name = NoName
  /\ \E i \in Invocations : inv[i].pc = "rejected" /\ inv[i].name = "nonexistent.command"

\* C9: an invocation of a registered command runs the pre-hooks in
\* registration order, then the handler once, then the post-hooks in
\* registration order: at every moment what it has run is a beginning of that
\* sequence (the handler's failure ends it), and when it resolves it has run
\* all of it; also when invocations interleave.
C9_HookOrder ==
  \A i \in Invocations :
    (inv[i].pc # "idle" /\ inv[i].name \in commands)
      => /\ \/ IsPrefix(ran[i], Expected(inv[i].name))
            \/ /\ inv[i].pc = "rejected"
               /\ ran[i] = HookEvents("pre", inv[i].name)
                    \o << [stage |-> "handler", id |-> inv[i].name],
                          [stage |-> "handlerFailed", id |-> inv[i].name] >>
         /\ inv[i].pc = "resolved" => ran[i] = Expected(inv[i].name)

\* Two invocations of different commands ran interleaved: one resolved with
\* two hooks per stage while the other was still between its steps.
C9_Witness ==
  \E i, j \in Invocations :
    /\ inv[i].name = "test.logs"
    /\ inv[i].pc = "resolved"
    /\ Len(ran[i]) = 6
    /\ inv[j].name = "a.b"
    /\ inv[j].pc = "handler"

\* C10: a probe parser returns a structured value or null and never throws,
\* and it returns null whenever the exit code is not 0.
C10_ParserNeverThrows ==
  ppc = "returned"
    => /\ ~pout.threw
       /\ pout.val.kind \in {"null", "json", "string"}
       /\ (pin.code # Num(0) => pout.val = Null)

\* A JSON parser was given malformed JSON with exit code 0 and returned null.
C10_Witness ==
  /\ ppc = "returned"
  /\ pin.name \in {"swarm", "images"}
  /\ pin.code = Num(0)
  /\ JSONParse(pin.stdout).threw
  /\ pout = Return(Null)

\* C11: in one serverInfo call the transport is invoked exactly once for each
\* server of the input, with one script that runs every registered probe,
\* however the other servers' calls end: never more than once, not at all
\* only while the server still waits, and once for every server by the time
\* serverInfo settles.
C11_OneTransportCallPerHost ==
  \A i \in Indexes :
    /\ Len(calls[i]) = IF st[i] = "queued" THEN 0 ELSE 1
    /\ fleet.state # "pending" => Len(calls[i]) = 1
    /\ \A k \in 1..Len(calls[i]) :
         \A p \in Registered :
           \E n \in 1..Len(calls[i][k]) : calls[i][k][n] = Run(Command(p))

\* Three servers were probed; one call was rejected, another resolved, and
\* serverInfo has settled.
C11_Witness ==
  /\ Len(servers) = 3
  /\ fleet.state # "pending"
  /\ Rejected # {}
  /\ Succeeded # {}

\* C12: serverInfo's promise settles, and the FleetResult is built, only
\* after the transport call of every server of the input has settled: it is
\* never settled while a server is still queued or in flight.
C12_SettlesAfterEveryHost ==
  fleet.state # "pending"
    => \A i \in Indexes : st[i] = "settled" /\ tr[i] \in {"resolved", "rejected"}

\* serverInfo resolved with the results of three servers on two hosts.
C12_Witness ==
  /\ fleet.state = "resolved"
  /\ Len(servers) = 3
  /\ DOMAIN fleet.value = Hosts

\* C13: a rejected transport call cancels or skips no other server: when
\* every started transport call settles, every server of the input has its
\* transport call started and settled, and serverInfo settles.
C13_EveryHostSettles ==
  <>( /\ fleet.state # "pending"
      /\ \A i \in Indexes : Len(calls[i]) = 1 /\ st[i] = "settled" )

\* One server's call was rejected while another is in flight and a third
\* still waits to be started.
C13_Witness ==
  \E i, j, k \in Indexes :
    /\ tr[i] = "rejected"
    /\ st[j] = "inflight"
    /\ st[k] = "queued"

\* The outcome of the servers' calls as an unordered relation between host
\* and getServerInfo result, and the settled serverInfo promise it determines.
Outcome == {<<servers[i], results[i]>> : i \in Indexes}
PerHostFixed == \A i, j \in Indexes : servers[i] = servers[j] => results[i] = results[j]
FleetOf(outcome) ==
  IF \E o \in outcome : o[2].kind # "object"
  THEN [state |-> "rejected", value |-> <<>>]
  ELSE [state |-> "resolved",
        value |-> [h \in {o[1] : o \in outcome} |->
                     (CHOOSE o \in outcome : o[1] = h)[2]]]

\* C14: with one fixed outcome per host, the settled serverInfo promise is
\* determined by the set of (host, outcome) pairs alone: neither the order of
\* the servers in the input nor the order in which their calls completed
\* changes the host-keyed mapping.
C14_OrderIndependent ==
  (fleet.state # "pending" /\ PerHostFixed) => fleet = FleetOf(Outcome)

\* serverInfo resolved for three servers on two hosts, the first host again
\* at the end of the input.
C14_Witness ==
  /\ fleet.state = "resolved"
  /\ PerHostFixed
  /\ Len(servers) = 3
  /\ servers[1] # servers[2]
  /\ servers[3] = servers[1]

\* A call of a probe parser that is parseJSONArray, with exit code 0, has
\* returned; the lines of its output.
ArrayParserReturned ==
  /\ ppc = "returned"
  /\ pin.name \in {"swarmNodes", "swarmServices", "images"}
  /\ pin.code = Num(0)
Lines == Split(pin.stdout, <<NL>>)
LinesWellFormed == \A k \in 1..Len(Lines) : ~JSONParse(Lines[k]).threw
ArrayOfLines ==
  Json(<<"[">> \o Join([k \in 1..Len(Lines) |-> JSONParse(Lines[k]).val.v], <<",">>) \o <<"]">>)

C16_NonzeroStatusGivesNull ==
  (transport = "remote" /\ hpc = "settled" /\ hres.kind = "object" /\ WellBehaved)
    => \A p \in Registered :
         remote[Command(p)].status # 0
           => p \in DOMAIN hres.v /\ hres.v[p] = Null

\* C17: getServerInfo's promise never rejects, whatever the transport does
\* and returns: it is fulfilled with a host result whose _host is server.host,
\* or with undefined.
C17_GetServerInfoNeverRejects ==
  /\ hpc # "rejected"
  /\ hpc = "settled"
       => \/ hres = Undefined
          \/ hres.kind = "object" /\ hres.v["_host"] = Str(<<Host>>)

\* The transport resolved with a well-framed chunk of an unregistered probe
\* name, and getServerInfo was fulfilled with undefined.
C17_Witness ==
  /\ transport = "stub"
  /\ sshOutcome = "resolved"
  /\ hpc = "settled"
  /\ hres = Undefined
  /\ Len(chunks) = 1
  /\ chunks[1].shape = "ok"
  /\ chunks[1].name = "nope"

\* The last server of the input with host identifier k.
LastOf(k) ==
  CHOOSE i \in Indexes : servers[i] = k /\ \A j \in Indexes : servers[j] = k => j <= i

\* C18: when serverInfo resolves, the keys of the result are the host
\* identifiers of the input, each key k maps to a host result whose _host is
\* k, and for a host identifier that several servers share the entry is the
\* result of the last of them in input order, in whatever order their calls
\* completed.
C18_KeyedByHostLastWins ==
  fleet.state = "resolved" =>
    /\ DOMAIN fleet.value = {servers[i] : i \in Indexes}
    /\ \A k \in DOMAIN fleet.value :
         /\ fleet.value[k].kind = "object"
         /\ fleet.value[k].v["_host"] = Str(<<k>>)
         /\ fleet.value[k] = results[LastOf(k)]

\* serverInfo resolved for an input whose first two servers share a host
\* identifier and produced different results.
C18_Witness ==
  /\ fleet.state = "resolved"
  /\ Len(servers) = 3
  /\ servers[1] = servers[2]
  /\ servers[3] # servers[1]
  /\ results[1] # results[2]
=============================================================================
